---- MODULE Spec2Model ----
(***************************************************************************)
(* Firmware update over a serial link: the message codec (messages crate), *)
(* the device-side updater worker (src/uart_update.rs with the queues of   *)
(* src/simple_ota.rs) and the host-side flasher (flasher/src/main.rs).     *)
(***************************************************************************)
EXTENDS Integers, Sequences, FiniteSets, TLC

(***************************************************************************)
(* Bounds of the model.                                                    *)
(***************************************************************************)
\* largest segment id the environment puts into a message or a reply
MaxId == 2
\* number of inbound buffers the device receive loop reads in one behaviour
MaxRx == 4
\* number of chunks of the largest firmware image the flasher is given
MaxChunks == 3

(***************************************************************************)
(* Program constants.                                                      *)
(***************************************************************************)
VERSION == 1
MAX_RETRY == 5
CHUNK_SIZE == 110
ACK_LEN == 6
U8 == 256
U16 == 65536
CRC_POLY == 4129
CRC_INIT == 65535

(***************************************************************************)
(* Codec: postcard wire format and CRC-16/IBM-3740 (messages/src/lib.rs).  *)
(***************************************************************************)
\* bitwise exclusive or of two naturals
BitXorFn[p \in Nat \X Nat] ==
  IF p[1] = 0 THEN p[2]
  ELSE IF p[2] = 0 THEN p[1]
  ELSE (((p[1] % 2) + (p[2] % 2)) % 2) + 2 * BitXorFn[<<p[1] \div 2, p[2] \div 2>>]

BitXor(a, b) == BitXorFn[<<a, b>>]

\* p[2] shift steps of the CRC register p[1]: MSB first, polynomial 0x1021
CrcShiftFn[p \in Nat \X Nat] ==
  IF p[2] = 0 THEN p[1]
  ELSE CrcShiftFn[<<IF p[1] >= 32768
                      THEN BitXor((p[1] * 2) % U16, CRC_POLY)
                      ELSE (p[1] * 2) % U16, p[2] - 1>>]

\* the lookup table Crc::new builds, one entry per byte value
CrcTable == [b \in 0..(U8 - 1) |-> CrcShiftFn[<<b * 256, 8>>]]

\* one byte through the table: crc = (crc << 8) ^ table[(crc >> 8) ^ byte]
CrcByteFn[p \in Nat \X Nat] ==
  BitXor((p[1] % 256) * 256, CrcTable[BitXor(p[1] \div 256, p[2])])

CrcByte(crc, byte) == CrcByteFn[<<crc, byte>>]

\* the register after bytes[lo..hi], left to right, starting from crc
CrcUpdate(crc, bytes) ==
  LET upd[t \in Nat \X Nat \X Nat] ==
        IF t[2] > t[3] THEN t[1]
        ELSE IF t[2] = t[3] THEN CrcByte(t[1], bytes[t[2]])
        ELSE upd[<<upd[<<t[1], t[2], (t[2] + t[3]) \div 2>>],
                   ((t[2] + t[3]) \div 2) + 1, t[3]>>]
  IN upd[<<crc, 1, Len(bytes)>>]

\* a checksum that depends on nothing but the number of bytes
ChecksumOfLength(bytes) == Len(bytes)

\* CRC.checksum(bytes): init 0xFFFF, no reflection, xorout 0
Checksum(bytes) == CrcUpdate(CRC_INIT, bytes)

RECURSIVE Varint(_)
\* postcard varint: little-endian base 128, high bit = more bytes follow
Varint(n) ==
  IF n < 128 THEN <<n>> ELSE <<128 + (n % 128)>> \o Varint(n \div 128)

\* UpdateStatus: Ok | Retry(Option<u16>) | Failed
StOk == [s |-> "Ok"]
StRetryNone == [s |-> "RetryNone"]
StRetry(id) == [s |-> "Retry", id |-> id]
StFailed == [s |-> "Failed"]

\* SerStatus that writes the id of Retry(Some(id)) without the Option byte
SerStatusNoOption(st) ==
  CASE st.s = "Ok" -> <<0>>
    [] st.s = "RetryNone" -> <<1, 0>>
    [] st.s = "Retry" -> <<1>> \o Varint(st.id)
    [] st.s = "Failed" -> <<2>>

SerStatus(st) ==
  CASE st.s = "Ok" -> <<0>>
    [] st.s = "RetryNone" -> <<1, 0>>
    [] st.s = "Retry" -> <<1, 1>> \o Varint(st.id)
    [] st.s = "Failed" -> <<2>>

\* MessageTypeHost
UpdateStart == [t |-> "UpdateStart"]
UpdateSegment(id, data) == [t |-> "UpdateSegment", id |-> id, data |-> data]
UpdateEnd == [t |-> "UpdateEnd"]
Cancel == [t |-> "Cancel"]

\* MessageTypeMcu
Adc(v) == [t |-> "Adc", v |-> v]
UpdateStartStatus(st) == [t |-> "UpdateStartStatus", st |-> st]
UpdateSegmentStatus(st) == [t |-> "UpdateSegmentStatus", st |-> st]
UpdateEndStatus(st) == [t |-> "UpdateEndStatus", st |-> st]

\* SerHost that writes the data of a segment before its id
SerHostDataFirst(m) ==
  CASE m.t = "UpdateStart" -> <<0>>
    [] m.t = "UpdateSegment" -> <<1>> \o Varint(Len(m.data)) \o m.data \o Varint(m.id)
    [] m.t = "UpdateEnd" -> <<2>>
    [] m.t = "Cancel" -> <<3>>

SerHost(m) ==
  CASE m.t = "UpdateStart" -> <<0>>
    [] m.t = "UpdateSegment" -> <<1>> \o Varint(m.id) \o Varint(Len(m.data)) \o m.data
    [] m.t = "UpdateEnd" -> <<2>>
    [] m.t = "Cancel" -> <<3>>

SerMcu(m) ==
  CASE m.t = "Adc" -> <<0>> \o Varint(m.v)
    [] m.t = "UpdateStartStatus" -> <<1>> \o SerStatus(m.st)
    [] m.t = "UpdateSegmentStatus" -> <<2>> \o SerStatus(m.st)
    [] m.t = "UpdateEndStatus" -> <<3>> \o SerStatus(m.st)

SerType(dir, m) == IF dir = "Host" THEN SerHost(m) ELSE SerMcu(m)

\* to_allocvec(&payload): version as one raw byte, then the message type
SerPayload(dir, p) == <<p.version>> \o SerType(dir, p.message_type)

\* Message::new
Payload(message_type) == [version |-> VERSION, message_type |-> message_type]

New(dir, message_type) ==
  [payload |-> Payload(message_type),
   checksum |-> Checksum(SerPayload(dir, Payload(message_type)))]

\* Message::serialize
serialize(dir, msg) == SerPayload(dir, msg.payload) \o Varint(msg.checksum)

(***************************************************************************)
(* Decoding.  A decoder result is [ok, v, rest]; from_bytes fails on       *)
(* truncated input, a bad varint, a bad option byte or an unknown variant, *)
(* and ignores bytes left after the message.                               *)
(***************************************************************************)
Fail == [ok |-> FALSE]
Got(v, rest) == [ok |-> TRUE, v |-> v, rest |-> rest]

RECURSIVE Pow128(_)
Pow128(i) == IF i = 0 THEN 1 ELSE 128 * Pow128(i - 1)

\* the value of a varint whose byte i contributes carry and whose later bytes
\* decoded to r
VarintJoin(carry, r) == IF r.ok THEN Got(carry + r.v, r.rest) ELSE Fail

RECURSIVE VarintAt(_, _, _, _)
\* byte i of a varint of at most max bytes whose last byte is at most lastMax
VarintAt(bytes, i, max, lastMax) ==
  IF i = max \/ bytes = <<>> THEN Fail
  ELSE IF Head(bytes) < 128
    THEN IF i = max - 1 /\ Head(bytes) > lastMax THEN Fail
         ELSE Got(Head(bytes) * Pow128(i), Tail(bytes))
    ELSE VarintJoin((Head(bytes) % 128) * Pow128(i),
                    VarintAt(Tail(bytes), i + 1, max, lastMax))

TakeU8(bytes) == IF bytes = <<>> THEN Fail ELSE Got(Head(bytes), Tail(bytes))
TakeU16(bytes) == VarintAt(bytes, 0, 3, 3)
TakeU32(bytes) == VarintAt(bytes, 0, 5, 15)

\* &[u8]: a length prefix n, then that many raw bytes
TakeSlice(n) ==
  IF ~n.ok THEN Fail
  ELSE IF Len(n.rest) < n.v THEN Fail
  ELSE Got(SubSeq(n.rest, 1, n.v), SubSeq(n.rest, n.v + 1, Len(n.rest)))

TakeBytes(bytes) == TakeSlice(TakeU32(bytes))

\* Some(id) from the decoded id
OptionSome(id) == IF id.ok THEN Got([some |-> TRUE, v |-> id.v], id.rest) ELSE Fail

\* Option<u16> after its presence byte opt
TakeOptionId(opt) ==
  IF ~opt.ok THEN Fail
  ELSE CASE opt.v = 0 -> Got([some |-> FALSE], opt.rest)
         [] opt.v = 1 -> OptionSome(TakeU16(opt.rest))
         [] OTHER -> Fail

\* Retry(o) from the decoded option o
RetryOf(o) ==
  IF ~o.ok THEN Fail
  ELSE Got(IF o.v.some THEN StRetry(o.v.v) ELSE StRetryNone, o.rest)

\* UpdateStatus after its variant tag
TakeStatusTag(tag) ==
  IF ~tag.ok THEN Fail
  ELSE CASE tag.v = 0 -> Got(StOk, tag.rest)
         [] tag.v = 1 -> RetryOf(TakeOptionId(TakeU8(tag.rest)))
         [] tag.v = 2 -> Got(StFailed, tag.rest)
         [] OTHER -> Fail

TakeStatus(bytes) == TakeStatusTag(TakeU32(bytes))

\* UpdateSegment(id, data) from the decoded id and the decoded data
SegmentOf(id, data) ==
  IF id.ok /\ data.ok THEN Got(UpdateSegment(id.v, data.v), data.rest) ELSE Fail

\* the slice that follows a decoded id, if the id decoded
BytesAfter(id) == IF id.ok THEN TakeBytes(id.rest) ELSE Fail

\* MessageTypeHost after its variant tag
TakeHostTag(tag) ==
  IF ~tag.ok THEN Fail
  ELSE CASE tag.v = 0 -> Got(UpdateStart, tag.rest)
         [] tag.v = 1 -> SegmentOf(TakeU16(tag.rest), BytesAfter(TakeU16(tag.rest)))
         [] tag.v = 2 -> Got(UpdateEnd, tag.rest)
         [] tag.v = 3 -> Got(Cancel, tag.rest)
         [] OTHER -> Fail

TakeHost(bytes) == TakeHostTag(TakeU32(bytes))

\* the Mcu message of variant tagv holding the decoded field f
McuOf(tagv, f) ==
  IF ~f.ok THEN Fail
  ELSE Got(CASE tagv = 0 -> Adc(f.v)
             [] tagv = 1 -> UpdateStartStatus(f.v)
             [] tagv = 2 -> UpdateSegmentStatus(f.v)
             [] tagv = 3 -> UpdateEndStatus(f.v), f.rest)

\* MessageTypeMcu after its variant tag
TakeMcuTag(tag) ==
  IF ~tag.ok THEN Fail
  ELSE CASE tag.v = 0 -> McuOf(0, TakeU32(tag.rest))
         [] tag.v \in {1, 2, 3} -> McuOf(tag.v, TakeStatus(tag.rest))
         [] OTHER -> Fail

TakeMcu(bytes) == TakeMcuTag(TakeU32(bytes))

\* Message { payload: { version, message_type }, checksum } from its decoded parts
MessageOf(version, mt, crc) ==
  IF version.ok /\ mt.ok /\ crc.ok
    THEN Got([payload |-> [version |-> version.v, message_type |-> mt.v],
              checksum |-> crc.v], crc.rest)
    ELSE Fail

\* the checksum field that follows a decoded message type
CrcAfter(mt) == IF mt.ok THEN TakeU16(mt.rest) ELSE Fail

\* the message type that follows the version byte
TypeAfter(dir, version) ==
  IF ~version.ok THEN Fail
  ELSE IF dir = "Host" THEN TakeHost(version.rest) ELSE TakeMcu(version.rest)

\* from_bytes::<Message<T>>
from_bytes(dir, bytes) ==
  MessageOf(TakeU8(bytes), TypeAfter(dir, TakeU8(bytes)),
            CrcAfter(TypeAfter(dir, TakeU8(bytes))))

\* is_crc_valid that compares nothing
is_crc_valid_any(dir, msg) == msg.checksum \in 0..(U16 - 1)

\* Message::is_crc_valid
is_crc_valid(dir, msg) == msg.checksum = Checksum(SerPayload(dir, msg.payload))

\* the match on from_bytes' result in deserialize
CheckCrc(dir, res) ==
  IF ~res.ok THEN [ok |-> FALSE, err |-> "Format"]
  ELSE IF ~is_crc_valid(dir, res.v) THEN [ok |-> FALSE, err |-> "ChecksumError"]
  ELSE [ok |-> TRUE, msg |-> res.v]

\* Message::deserialize: Ok(msg), the format error of from_bytes, or ChecksumError
deserialize(dir, bytes) == CheckCrc(dir, from_bytes(dir, bytes))

(***************************************************************************)
(* Device: the serial thread (src/simple_ota.rs) and the updater worker    *)
(* (src/uart_update.rs).                                                    *)
(***************************************************************************)
VARIABLES
  updater_rx,       \* channel of raw inbound buffers, serial thread -> worker
  serial_tx,        \* channel of reply messages, worker -> serial thread
  uart_out,         \* buffers written to the UART by handle_uart_tx, in order
  nread,            \* number of buffers the serial thread has read so far
  state,            \* sm.state: "Init" or "WaitingForData"
  expected_seg_id,  \* u16
  ota_update,       \* Option<EspOtaUpdate>: "None" or "Some"
  written,          \* bytes written to the update slot since initiate_update
  ncomplete,        \* successful complete() calls (image marked valid)
  nabort,           \* abort() calls
  rx,               \* outcome of deserialize in the last worker iteration
  ota_res,          \* outcome of the storage call of the last worker iteration
  worker            \* "running", "panicked" (thread dead) or "restarted"

devVars == <<updater_rx, serial_tx, uart_out, nread, state, expected_seg_id,
             ota_update, written, ncomplete, nabort, rx, ota_res, worker>>

\* the flasher's state (flasher/src/main.rs)
VARIABLES
  firmware,    \* the bytes of the binary file
  hpc,         \* where main is: "cancel", "start", "ack", "loop", "reply",
               \* "end", "done" (Ok(())) or "failed" (returned Err)
  i,           \* chunk cursor
  retry_cnt,   \* loop variable of 'retry
  herr,        \* the error main returned, "none" while it runs
  port_out,    \* the buffer last written to the serial port
  port_rx,     \* bytes waiting in the serial port's input buffer
  rx_msg,      \* outcome of the last read: the decoded reply or the error
  start_acked, \* UpdateStartStatus(Ok) has been read
  acked        \* chunk indices whose send_chunk returned UpdateStatus::Ok

hostVars == <<firmware, hpc, i, retry_cnt, herr, port_out, port_rx, rx_msg,
              start_acked, acked>>

\* the codec exercised on its own, as the tests of messages/src/lib.rs do
VARIABLES
  dir,         \* the type parameter T of Message<T>: "Host" or "Mcu"
  new_msg,        \* Message::new(message_type)
  msg_bytes,   \* Message::serialize(&msg), <<>> before it is called
  raw,         \* the bytes handed to Message::deserialize
  damage,      \* how raw was obtained from msg_bytes
  des_msg,     \* outcome of Message::deserialize(&raw)
  cpc          \* "off", "new", "serialized" or "decoded"

codecVars == <<dir, new_msg, msg_bytes, raw, damage, des_msg, cpc>>

vars == <<devVars, hostVars, codecVars>>

\* the statemachine! transition table; "Err" where no transition is declared
process_event(s, e) ==
  CASE s = "Init" /\ e = "UpdateStart" -> "WaitingForData"
    [] s = "WaitingForData" /\ e = "SegmentOk" -> "WaitingForData"
    [] s \in {"Init", "WaitingForData"} /\ e = "Cancel" -> "Init"
    [] OTHER -> "Err"

\* tx.lock().unwrap().send(Message::new(reply)).unwrap()
Reply(reply) == serial_tx' = Append(serial_tx, New("Mcu", reply))

DevInitState ==
  /\ updater_rx = <<>>
  /\ serial_tx = <<>>
  /\ uart_out = <<>>
  /\ nread = 0
  /\ state = "Init"
  /\ expected_seg_id = 0
  /\ ota_update = "None"
  /\ written = <<>>
  /\ ncomplete = 0
  /\ nabort = 0
  /\ rx = [ok |-> FALSE, err |-> "none"]
  /\ ota_res = "none"
  /\ worker = "running"

\* serial thread, count > 0: read what the UART holds and hand it to the worker
\* (updater_tx.send(..).unwrap() needs the worker's receiver to be alive)
SerialRead(buf) ==
  /\ worker = "running"
  /\ nread < MaxRx
  /\ nread' = nread + 1
  /\ updater_rx' = Append(updater_rx, buf)
  /\ UNCHANGED <<serial_tx, uart_out, state, expected_seg_id, ota_update,
                 written, ncomplete, nabort, rx, ota_res, worker>>

\* HandleUartTx that takes the reply queued last instead of the oldest one
HandleUartTxNewest(wok) ==
  /\ worker # "restarted"
  /\ serial_tx # <<>>
  /\ serial_tx' = SubSeq(serial_tx, 1, Len(serial_tx) - 1)
  /\ uart_out' = IF wok THEN Append(uart_out, serialize("Mcu", serial_tx[Len(serial_tx)]))
                        ELSE uart_out
  /\ UNCHANGED <<updater_rx, nread, state, expected_seg_id, ota_update,
                 written, ncomplete, nabort, rx, ota_res, worker>>

\* serial thread, count = 0: handle_uart_tx takes one queued reply, if any,
\* and writes it to the UART (wok: whether the write succeeds; if not, the
\* error is returned and ignored, the reply is gone)
HandleUartTx(wok) ==
  /\ worker # "restarted"
  /\ serial_tx # <<>>
  /\ serial_tx' = Tail(serial_tx)
  /\ uart_out' = IF wok THEN Append(uart_out, serialize("Mcu", Head(serial_tx)))
                        ELSE uart_out
  /\ UNCHANGED <<updater_rx, nread, state, expected_seg_id, ota_update,
                 written, ncomplete, nabort, rx, ota_res, worker>>

\* WorkerDecodeError that asks the host to send again
WorkerDecodeErrorRetry ==
  /\ ota_res' = "none"
  /\ Reply(UpdateSegmentStatus(StRetryNone))
  /\ UNCHANGED <<state, expected_seg_id, ota_update, written, ncomplete, nabort, worker>>

\* deserialize failed: log and continue
WorkerDecodeError ==
  /\ ota_res' = "none"
  /\ UNCHANGED <<serial_tx, state, expected_seg_id, ota_update, written,
                 ncomplete, nabort, worker>>

\* WorkerUpdateStart without the reset of expected_seg_id
WorkerUpdateStartKeepId(ok) ==
  /\ IF ok
       THEN /\ ota_res' = "ok"
            /\ ota_update' = "Some"
            /\ written' = <<>>
            /\ Reply(UpdateStartStatus(StOk))
            /\ UNCHANGED expected_seg_id
            /\ state' = process_event(state, "UpdateStart")
            /\ worker' = IF state' = "Err" THEN "panicked" ELSE worker
       ELSE /\ ota_res' = "err"
            /\ worker' = "panicked"
            /\ UNCHANGED <<serial_tx, state, expected_seg_id, ota_update, written>>
  /\ UNCHANGED <<ncomplete, nabort>>

\* MessageTypeHost::UpdateStart if sm.state == States::Init
\* (ok: whether get_update_slot / initiate_update succeed; unwrap panics if not)
WorkerUpdateStart(ok) ==
  /\ IF ok
       THEN /\ ota_res' = "ok"
            /\ ota_update' = "Some"
            /\ written' = <<>>
            /\ Reply(UpdateStartStatus(StOk))
            /\ expected_seg_id' = 0
            /\ state' = process_event(state, "UpdateStart")
            /\ worker' = IF state' = "Err" THEN "panicked" ELSE worker
       ELSE /\ ota_res' = "err"
            /\ worker' = "panicked"
            /\ UNCHANGED <<serial_tx, state, expected_seg_id, ota_update, written>>
  /\ UNCHANGED <<ncomplete, nabort>>

\* WorkerSegmentRetry with the expected id left out of the reply
WorkerSegmentRetryNoId ==
  /\ Reply(UpdateSegmentStatus(StRetryNone))
  /\ ota_res' = "none"
  /\ UNCHANGED <<state, expected_seg_id, ota_update, written, ncomplete, nabort, worker>>

\* expected_seg_id != id: ask for the expected segment again, continue
WorkerSegmentRetry ==
  /\ Reply(UpdateSegmentStatus(StRetry(expected_seg_id % U16)))
  /\ ota_res' = "none"
  /\ UNCHANGED <<state, expected_seg_id, ota_update, written, ncomplete, nabort, worker>>

\* WorkerSegmentWrite with expected_seg_id = id instead of id + 1
WorkerSegmentWriteNoAdvance(id, segment, ok) ==
  /\ IF ota_update = "None"
       THEN /\ ota_res' = "none"
            /\ worker' = "panicked"
            /\ UNCHANGED <<serial_tx, state, expected_seg_id, written>>
       ELSE IF ok
         THEN /\ ota_res' = "ok"
              /\ written' = written \o segment
              /\ expected_seg_id' = id % U16
              /\ Reply(UpdateSegmentStatus(StOk))
              /\ state' = process_event(state, "SegmentOk")
              /\ worker' = IF state' = "Err" THEN "panicked" ELSE worker
         ELSE /\ ota_res' = "err"
              /\ UNCHANGED <<serial_tx, state, expected_seg_id, written, worker>>
  /\ UNCHANGED <<ota_update, ncomplete, nabort>>

\* expected_seg_id == id: ota_update.write(segment), ok or not
WorkerSegmentWrite(id, segment, ok) ==
  /\ IF ota_update = "None"
       THEN \* ota_update.as_mut().unwrap() panics
            /\ ota_res' = "none"
            /\ worker' = "panicked"
            /\ UNCHANGED <<serial_tx, state, expected_seg_id, written>>
       ELSE IF ok
         THEN /\ ota_res' = "ok"
              /\ written' = written \o segment
              /\ \/ /\ expected_seg_id' = (id + 1) % U16
                    /\ Reply(UpdateSegmentStatus(StOk))
                    /\ state' = process_event(state, "SegmentOk")
                    /\ worker' = IF state' = "Err" THEN "panicked" ELSE worker
                 \/ \* id + 1 overflows u16 and the build checks overflow: panic
                    /\ id + 1 = U16
                    /\ worker' = "panicked"
                    /\ UNCHANGED <<serial_tx, state, expected_seg_id>>
         ELSE \* Err(e): log and continue
              /\ ota_res' = "err"
              /\ UNCHANGED <<serial_tx, state, expected_seg_id, written, worker>>
  /\ UNCHANGED <<ota_update, ncomplete, nabort>>

\* MessageTypeHost::UpdateSegment(id, segment) if sm.state == States::WaitingForData
WorkerUpdateSegment(id, segment, ok) ==
  IF expected_seg_id # id
    THEN WorkerSegmentRetry
    ELSE WorkerSegmentWrite(id, segment, ok)

\* WorkerUpdateEnd that restarts the chip whether or not complete() succeeded
WorkerUpdateEndResetAnyway(ok) ==
  /\ IF ota_update = "None"
       THEN /\ ota_res' = "none"
            /\ worker' = "panicked"
            /\ UNCHANGED <<ota_update, ncomplete>>
       ELSE /\ ota_update' = "None"
            /\ ota_res' = IF ok THEN "ok" ELSE "err"
            /\ ncomplete' = IF ok THEN ncomplete + 1 ELSE ncomplete
            /\ worker' = "restarted"
  /\ UNCHANGED <<serial_tx, state, expected_seg_id, written, nabort>>

\* MessageTypeHost::UpdateEnd if sm.state == States::WaitingForData
\* (ok: whether complete() succeeds; unwrap panics if not, else esp_restart())
WorkerUpdateEnd(ok) ==
  /\ IF ota_update = "None"
       THEN \* ota_update.take().unwrap() panics
            /\ ota_res' = "none"
            /\ worker' = "panicked"
            /\ UNCHANGED <<ota_update, ncomplete>>
       ELSE /\ ota_update' = "None"
            /\ ota_res' = IF ok THEN "ok" ELSE "err"
            /\ ncomplete' = IF ok THEN ncomplete + 1 ELSE ncomplete
            /\ worker' = IF ok THEN "restarted" ELSE "panicked"
  /\ UNCHANGED <<serial_tx, state, expected_seg_id, written, nabort>>

\* WorkerCancel that forgets the open session: no take(), no abort()
WorkerCancelKeepsSession ==
  /\ IF state = "Init"
       THEN /\ ota_res' = "none"
            /\ UNCHANGED <<state, ota_update, nabort, worker>>
       ELSE /\ ota_res' = "none"
            /\ UNCHANGED <<ota_update, nabort>>
            /\ state' = process_event(state, "Cancel")
            /\ worker' = IF state' = "Err" THEN "panicked" ELSE worker
  /\ UNCHANGED <<serial_tx, expected_seg_id, written, ncomplete>>

\* WorkerCancel that aborts the session but leaves the state machine alone
WorkerCancelNoEvent ==
  /\ IF state = "Init"
       THEN /\ ota_res' = "none"
            /\ UNCHANGED <<state, ota_update, nabort, worker>>
       ELSE IF ota_update = "None"
         THEN /\ ota_res' = "none"
              /\ worker' = "panicked"
              /\ UNCHANGED <<state, ota_update, nabort>>
         ELSE /\ ota_res' = "ok"
              /\ ota_update' = "None"
              /\ nabort' = nabort + 1
              /\ UNCHANGED <<state, worker>>
  /\ UNCHANGED <<serial_tx, expected_seg_id, written, ncomplete>>

\* MessageTypeHost::Cancel
WorkerCancel ==
  /\ IF state = "Init"
       THEN /\ ota_res' = "none"
            /\ UNCHANGED <<state, ota_update, nabort, worker>>
       ELSE IF ota_update = "None"
         THEN \* ota_update.take().unwrap() panics
              /\ ota_res' = "none"
              /\ worker' = "panicked"
              /\ UNCHANGED <<state, ota_update, nabort>>
         ELSE \* abort()
              /\ ota_res' = "ok"
              /\ ota_update' = "None"
              /\ nabort' = nabort + 1
              /\ state' = process_event(state, "Cancel")
              /\ worker' = IF state' = "Err" THEN "panicked" ELSE worker
  /\ UNCHANGED <<serial_tx, expected_seg_id, written, ncomplete>>

\* _ => println!("Invalid state")
WorkerInvalidState ==
  /\ ota_res' = "none"
  /\ UNCHANGED <<serial_tx, state, expected_seg_id, ota_update, written,
                 ncomplete, nabort, worker>>

\* WorkerMatch whose UpdateStart arm lacks the guard on the state
WorkerMatchStartAnywhere(msg, ok) ==
  CASE msg.t = "UpdateStart" -> WorkerUpdateStart(ok)
    [] msg.t = "UpdateSegment" /\ state = "WaitingForData" ->
         WorkerUpdateSegment(msg.id, msg.data, ok)
    [] msg.t = "UpdateEnd" /\ state = "WaitingForData" -> WorkerUpdateEnd(ok)
    [] msg.t = "Cancel" -> WorkerCancel
    [] OTHER -> WorkerInvalidState

\* the match on the decoded message, arms in source order
WorkerMatch(msg, ok) ==
  CASE msg.t = "UpdateStart" /\ state = "Init" -> WorkerUpdateStart(ok)
    [] msg.t = "UpdateSegment" /\ state = "WaitingForData" ->
         WorkerUpdateSegment(msg.id, msg.data, ok)
    [] msg.t = "UpdateEnd" /\ state = "WaitingForData" -> WorkerUpdateEnd(ok)
    [] msg.t = "Cancel" -> WorkerCancel
    [] OTHER -> WorkerInvalidState

\* whether the iteration for msg makes a fallible storage call
CallsStorage(msg) ==
  \/ msg.t = "UpdateStart" /\ state = "Init"
  \/ msg.t = "UpdateSegment" /\ state = "WaitingForData" /\ expected_seg_id = msg.id
  \/ msg.t = "UpdateEnd" /\ state = "WaitingForData"

\* the match on deserialize's result, then the match on the message
WorkerDecoded(res, ok) ==
  IF ~res.ok
    THEN ok /\ WorkerDecodeError
    ELSE /\ IF CallsStorage(res.msg.payload.message_type) THEN TRUE ELSE ok
         /\ WorkerMatch(res.msg.payload.message_type, ok)

\* one iteration of the worker loop: rx.recv(), deserialize, match.
\* ok is the outcome of the storage call the iteration makes, if it makes one.
Worker(ok) ==
  /\ worker = "running"
  /\ updater_rx # <<>>
  /\ updater_rx' = Tail(updater_rx)
  /\ rx' = deserialize("Host", Head(updater_rx))
  /\ WorkerDecoded(rx', ok)
  /\ UNCHANGED <<uart_out, nread>>
  /\ UNCHANGED <<hostVars, codecVars>>

(***************************************************************************)
(* Inbound buffers the environment may put on the device's UART.           *)
(***************************************************************************)
SegData == {<<233>>, <<7, 8>>}

HostMsgs ==
  {UpdateStart, UpdateEnd, Cancel}
    \cup {UpdateSegment(id, d) : id \in 0..MaxId, d \in SegData}

\* a buffer cut short, and one whose checksum field is wrong
Truncated == <<VERSION, 1, 0>>
BadCrc == <<VERSION, 0, 0>>

\* the data sent with each segment id: two bytes for even ids, one for odd ones
SegDataOf(id) == IF id % 2 = 0 THEN <<7, 8>> ELSE <<233>>

\* the messages that arrive: each segment id with its data
InMsgs ==
  {UpdateStart, UpdateEnd, Cancel}
    \cup {UpdateSegment(id, SegDataOf(id)) : id \in 0..MaxId}

InBufs == {serialize("Host", New("Host", m)) : m \in InMsgs} \cup {Truncated, BadCrc}

(***************************************************************************)
(* Host: the flasher (flasher/src/main.rs), from "Cancel any previous      *)
(* operation" to the end of main.                                          *)
(***************************************************************************)
Min(a, b) == IF a < b THEN a ELSE b

\* firmware.chunks(CHUNK_SIZE): consecutive slices, the last one may be shorter
Chunks(fw) ==
  [k \in 1..((Len(fw) + CHUNK_SIZE - 1) \div CHUNK_SIZE) |->
     SubSeq(fw, (k - 1) * CHUNK_SIZE + 1, Min(k * CHUNK_SIZE, Len(fw)))]

\* Chunk that hands out the first slice for every index
ChunkFirst(n) == Chunks(firmware)[1]

\* chunks.get(i).unwrap(), i counted from 0
Chunk(n) == Chunks(firmware)[n + 1]

\* chunks.len()
NChunks == Len(Chunks(firmware))

HostInitWith(fw) ==
  /\ firmware = fw
  /\ hpc = "cancel"
  /\ i = 0
  /\ retry_cnt = 0
  /\ herr = "none"
  /\ port_out = <<>>
  /\ port_rx = <<>>
  /\ rx_msg = [ok |-> FALSE, err |-> "none"]
  /\ start_acked = FALSE
  /\ acked = {}

\* Err(..)? : main returns the error
HostFail(e) == hpc' = "failed" /\ herr' = e

\* serial_port.write(serialize(Message::new(m)))?, wok: whether the write succeeds
HostWrite(m, wok, next) ==
  IF wok
    THEN /\ port_out' = serialize("Host", New("Host", m))
         /\ hpc' = next
         /\ UNCHANGED herr
    ELSE /\ HostFail("Io")
         /\ UNCHANGED port_out

\* Cancel any previous operation
HostCancel(wok) ==
  /\ hpc = "cancel"
  /\ HostWrite(Cancel, wok, "start")
  /\ UNCHANGED <<firmware, i, retry_cnt, port_rx, rx_msg, start_acked, acked>>
  /\ UNCHANGED <<devVars, codecVars>>

\* Start update
HostStart(wok) ==
  /\ hpc = "start"
  /\ HostWrite(UpdateStart, wok, "ack")
  /\ UNCHANGED <<firmware, i, retry_cnt, port_rx, rx_msg, start_acked, acked>>
  /\ UNCHANGED <<devVars, codecVars>>

\* HostCheckAck that accepts an UpdateStartStatus of any status
HostCheckAckAnyStatus(res) ==
  IF ~res.ok
    THEN HostFail("Deserialize") /\ UNCHANGED <<start_acked, i>>
    ELSE IF res.msg.payload.message_type.t # "UpdateStartStatus"
      THEN HostFail("ComInvalidResponse") /\ UNCHANGED <<start_acked, i>>
      ELSE /\ start_acked' = TRUE
           /\ i' = 0
           /\ hpc' = "loop"
           /\ UNCHANGED herr

\* the check of the start ACK: deserialize(..)?, then matches!(.., Ok)
HostCheckAck(res) ==
  IF ~res.ok
    THEN HostFail("Deserialize") /\ UNCHANGED <<start_acked, i>>
    ELSE IF res.msg.payload.message_type # UpdateStartStatus(StOk)
      THEN HostFail("ComInvalidResponse") /\ UNCHANGED <<start_acked, i>>
      ELSE /\ start_acked' = TRUE
           /\ i' = 0
           /\ hpc' = "loop"
           /\ UNCHANGED herr

\* read_exact of ACK_LEN bytes out of the bytes avail, which fails on a timeout
HostReadAck(avail) ==
  IF Len(avail) < ACK_LEN
    THEN /\ port_rx' = <<>>
         /\ rx_msg' = [ok |-> FALSE, err |-> "Io"]
         /\ HostFail("Io")
         /\ UNCHANGED <<start_acked, i>>
    ELSE /\ port_rx' = SubSeq(avail, ACK_LEN + 1, Len(avail))
         /\ rx_msg' = deserialize("Mcu", SubSeq(avail, 1, ACK_LEN))
         /\ HostCheckAck(rx_msg')

\* ACK start update.  arr: the bytes that arrive before the read times out.
HostAck(arr) ==
  /\ hpc = "ack"
  /\ HostReadAck(port_rx \o arr)
  /\ UNCHANGED <<firmware, retry_cnt, port_out, acked>>
  /\ UNCHANGED <<devVars, codecVars>>

\* HostLoopExit that leaves the loop one chunk early
HostLoopExitEarly ==
  /\ hpc = "loop"
  /\ retry_cnt = 0
  /\ ~(i + 1 < NChunks)
  /\ hpc' = "end"
  /\ UNCHANGED <<firmware, i, retry_cnt, herr, port_out, port_rx, rx_msg,
                 start_acked, acked>>
  /\ UNCHANGED <<devVars, codecVars>>

\* while i < chunks.len() is false: leave the loop
HostLoopExit ==
  /\ hpc = "loop"
  /\ retry_cnt = 0
  /\ ~(i < NChunks)
  /\ hpc' = "end"
  /\ UNCHANGED <<firmware, i, retry_cnt, herr, port_out, port_rx, rx_msg,
                 start_acked, acked>>
  /\ UNCHANGED <<devVars, codecVars>>

\* if retry_cnt == MAX_RETRY { Err(Error::ComWriteFailed)? }
HostBudgetExceeded ==
  /\ hpc = "loop"
  /\ IF retry_cnt = 0 THEN i < NChunks ELSE TRUE
  /\ retry_cnt = MAX_RETRY
  /\ HostFail("ComWriteFailed")
  /\ UNCHANGED <<firmware, i, retry_cnt, port_out, port_rx, rx_msg,
                 start_acked, acked>>
  /\ UNCHANGED <<devVars, codecVars>>

\* send_chunk, first half: write UpdateSegment(i as u16, chunk)
HostSendChunk(wok) ==
  /\ hpc = "loop"
  /\ IF retry_cnt = 0 THEN i < NChunks ELSE TRUE
  /\ retry_cnt # MAX_RETRY
  /\ HostWrite(UpdateSegment(i % U16, Chunk(i)), wok, "reply")
  /\ rx_msg' = IF wok THEN rx_msg ELSE [ok |-> FALSE, err |-> "Io"]
  /\ UNCHANGED <<firmware, i, retry_cnt, port_rx, start_acked, acked>>
  /\ UNCHANGED <<devVars, codecVars>>

\* HostMatchOk that retries without moving the cursor to the id of the reply
HostMatchOkNoRewind(status) ==
  CASE status.s = "Ok" ->
         /\ i' = i + 1
         /\ retry_cnt' = 0
         /\ acked' = acked \cup {i}
         /\ hpc' = "loop"
         /\ UNCHANGED herr
    [] status.s = "Retry" /\ status.id <= i ->
         /\ i' = i
         /\ retry_cnt' = retry_cnt + 1
         /\ hpc' = "loop"
         /\ UNCHANGED <<herr, acked>>
    [] OTHER ->
         HostFail("ComCriticalError") /\ UNCHANGED <<i, retry_cnt, acked>>

\* HostMatchOk that rewinds or jumps to whatever id the reply carries
HostMatchOkAnyRetry(status) ==
  CASE status.s = "Ok" ->
         /\ i' = i + 1
         /\ retry_cnt' = 0
         /\ acked' = acked \cup {i}
         /\ hpc' = "loop"
         /\ UNCHANGED herr
    [] status.s = "Retry" ->
         /\ i' = status.id
         /\ retry_cnt' = retry_cnt + 1
         /\ hpc' = "loop"
         /\ UNCHANGED <<herr, acked>>
    [] OTHER ->
         HostFail("ComCriticalError") /\ UNCHANGED <<i, retry_cnt, acked>>

\* HostMatchOk whose retries are not counted
HostMatchOkFreeRetry(status) ==
  CASE status.s = "Ok" ->
         /\ i' = i + 1
         /\ retry_cnt' = 0
         /\ acked' = acked \cup {i}
         /\ hpc' = "loop"
         /\ UNCHANGED herr
    [] status.s = "Retry" /\ status.id <= i ->
         /\ i' = status.id
         /\ retry_cnt' = retry_cnt
         /\ hpc' = "loop"
         /\ UNCHANGED <<herr, acked>>
    [] OTHER ->
         HostFail("ComCriticalError") /\ UNCHANGED <<i, retry_cnt, acked>>

\* the match on the status send_chunk returned
HostMatchOk(status) ==
  CASE status.s = "Ok" ->
         \* break 'retry, then i += 1 and the next pass of while
         /\ i' = i + 1
         /\ retry_cnt' = 0
         /\ acked' = acked \cup {i}
         /\ hpc' = "loop"
         /\ UNCHANGED herr
    [] status.s = "Retry" /\ status.id <= i ->
         \* i = id; continue 'retry
         /\ i' = status.id
         /\ retry_cnt' = retry_cnt + 1
         /\ hpc' = "loop"
         /\ UNCHANGED <<herr, acked>>
    [] OTHER ->
         HostFail("ComCriticalError") /\ UNCHANGED <<i, retry_cnt, acked>>

\* the match on send_chunk's result in main
HostMatchStatus(res) ==
  IF ~res.ok
    THEN \* Err(e) => Err(e)?
         HostFail(res.err) /\ UNCHANGED <<i, retry_cnt, acked>>
    ELSE HostMatchOk(res.msg)

\* the end of send_chunk: the status of an UpdateSegmentStatus, else an error
StatusOf(res) ==
  IF ~res.ok THEN [ok |-> FALSE, err |-> "Deserialize"]
  ELSE IF res.msg.payload.message_type.t = "UpdateSegmentStatus"
    THEN [ok |-> TRUE, msg |-> res.msg.payload.message_type.st]
    ELSE [ok |-> FALSE, err |-> "ComInvalidResponse"]

\* send_chunk, second half: read ACK_LEN bytes, then whatever else has arrived,
\* and deserialize
SendChunkResult(avail) ==
  IF Len(avail) < ACK_LEN
    THEN [ok |-> FALSE, err |-> "Io"]
    ELSE StatusOf(deserialize("Mcu", avail))

HostChunkReply(arr) ==
  /\ hpc = "reply"
  /\ port_rx' = <<>>
  /\ rx_msg' = SendChunkResult(port_rx \o arr)
  /\ HostMatchStatus(rx_msg')
  /\ UNCHANGED <<firmware, port_out, start_acked>>
  /\ UNCHANGED <<devVars, codecVars>>

\* after the loop: write UpdateEnd, return Ok(())
HostEnd(wok) ==
  /\ hpc = "end"
  /\ HostWrite(UpdateEnd, wok, "done")
  /\ UNCHANGED <<firmware, i, retry_cnt, port_rx, rx_msg, start_acked, acked>>
  /\ UNCHANGED <<devVars, codecVars>>

\* the binary files given to the flasher: byte j of each is the same function of j
Image(n) == [j \in 1..n |-> (7 * j + 3) % U8]
ImageLens ==
  {0, MaxChunks * CHUNK_SIZE} \cup {(k - 1) * CHUNK_SIZE + 1 : k \in 1..MaxChunks}
Images == {Image(n) : n \in ImageLens}

\* what the device side may put on the host's serial input before a read
McuMsgs ==
  {UpdateStartStatus(StOk), UpdateStartStatus(StFailed), Adc(5),
   UpdateSegmentStatus(StOk), UpdateSegmentStatus(StFailed),
   UpdateSegmentStatus(StRetryNone)}
    \cup {UpdateSegmentStatus(StRetry(id)) : id \in 0..MaxId}

\* nothing (the read times out), and a reply whose checksum field is wrong
McuBufs ==
  {serialize("Mcu", New("Mcu", m)) : m \in McuMsgs}
    \cup {<<>>, <<VERSION, 2, 0, 0, 0, 0>>}

(***************************************************************************)
(* Codec: Message::new, serialize and deserialize applied to one message,  *)
(* with the bytes damaged in between or not (messages/src/lib.rs, tests).  *)
(***************************************************************************)
CodecIds == {0, 1, MaxId, 127, 128, 666, 16383, 16384, 65535}
CodecData == SegData \cup {<<>>, <<1, 2, 3, 255>>}
CodecStatus == {StOk, StRetryNone, StFailed} \cup {StRetry(id) : id \in CodecIds}

CodecHostMsgs ==
  {UpdateStart, UpdateEnd, Cancel}
    \cup {UpdateSegment(id, d) : id \in CodecIds, d \in CodecData}

CodecMcuMsgs ==
  {Adc(v) : v \in {0, 5, 4919, 2097152}}
    \cup {UpdateStartStatus(st) : st \in CodecStatus}
    \cup {UpdateSegmentStatus(st) : st \in CodecStatus}
    \cup {UpdateEndStatus(st) : st \in CodecStatus}

CodecMsgs(d) == IF d = "Host" THEN CodecHostMsgs ELSE CodecMcuMsgs

NoDamage == [k |-> "none"]
NotDecoded == [ok |-> FALSE, err |-> "none"]

\* the codec is not exercised
CodecOff ==
  /\ dir = "Host"
  /\ new_msg = New("Host", UpdateStart)
  /\ msg_bytes = <<>>
  /\ raw = <<>>
  /\ damage = NoDamage
  /\ des_msg = NotDecoded
  /\ cpc = "off"

\* let msg = Message::new(message_type)
CodecNew(d, message_type) ==
  /\ dir = d
  /\ new_msg = New(d, message_type)
  /\ msg_bytes = <<>>
  /\ raw = <<>>
  /\ damage = NoDamage
  /\ des_msg = NotDecoded
  /\ cpc = "new"

\* let msg_bytes = msg.serialize().unwrap()
CodecSerialize ==
  /\ cpc = "new"
  /\ msg_bytes' = serialize(dir, new_msg)
  /\ raw' = msg_bytes'
  /\ cpc' = "serialized"
  /\ UNCHANGED <<dir, new_msg, damage, des_msg>>
  /\ UNCHANGED <<devVars, hostVars>>

\* bytes with bit b (0 the lowest bit of the first byte) inverted
FlipBit(bytes, b) ==
  [bytes EXCEPT ![(b \div 8) + 1] = BitXor(@, 2 ^ (b % 8))]

\* the line inverts one bit of the encoded message
CodecFlipBit(b) ==
  /\ cpc = "serialized"
  /\ damage = NoDamage
  /\ b \in 0..(8 * Len(msg_bytes) - 1)
  /\ raw' = FlipBit(msg_bytes, b)
  /\ damage' = [k |-> "flip", bit |-> b]
  /\ UNCHANGED <<dir, new_msg, msg_bytes, des_msg, cpc>>
  /\ UNCHANGED <<devVars, hostVars>>

\* the line loses the end of the encoded message: only its first n bytes arrive
CodecTruncate(n) ==
  /\ cpc = "serialized"
  /\ damage = NoDamage
  /\ n \in 0..(Len(msg_bytes) - 1)
  /\ raw' = SubSeq(msg_bytes, 1, n)
  /\ damage' = [k |-> "truncate", n |-> n]
  /\ UNCHANGED <<dir, new_msg, msg_bytes, des_msg, cpc>>
  /\ UNCHANGED <<devVars, hostVars>>

\* the checksum field is replaced by the encoding of c (as bad_checksum does)
CodecSetChecksum(c) ==
  /\ cpc = "serialized"
  /\ damage = NoDamage
  /\ c # new_msg.checksum
  /\ raw' = SerPayload(dir, new_msg.payload) \o Varint(c)
  /\ damage' = [k |-> "checksum", c |-> c]
  /\ UNCHANGED <<dir, new_msg, msg_bytes, des_msg, cpc>>
  /\ UNCHANGED <<devVars, hostVars>>

\* a byte that is not part of the message follows it in the buffer
CodecAppend(b) ==
  /\ cpc = "serialized"
  /\ damage = NoDamage
  /\ raw' = Append(msg_bytes, b)
  /\ damage' = [k |-> "append", b |-> b]
  /\ UNCHANGED <<dir, new_msg, msg_bytes, des_msg, cpc>>
  /\ UNCHANGED <<devVars, hostVars>>

\* the variant tag is sent as a two-byte varint of the same value
CodecWidenTag ==
  /\ cpc = "serialized"
  /\ damage = NoDamage
  /\ raw' = <<msg_bytes[1], msg_bytes[2] + 128, 0>> \o SubSeq(msg_bytes, 3, Len(msg_bytes))
  /\ damage' = [k |-> "widen"]
  /\ UNCHANGED <<dir, new_msg, msg_bytes, des_msg, cpc>>
  /\ UNCHANGED <<devVars, hostVars>>

\* the message as a sender built with another VERSION encodes it: version
\* byte v, and the checksum of the payload with that version
CodecOtherVersion(v) ==
  /\ cpc = "serialized"
  /\ damage = NoDamage
  /\ v # VERSION
  /\ raw' = <<v>> \o SerType(dir, new_msg.payload.message_type)
              \o Varint(Checksum(<<v>> \o SerType(dir, new_msg.payload.message_type)))
  /\ damage' = [k |-> "version", v |-> v]
  /\ UNCHANGED <<dir, new_msg, msg_bytes, des_msg, cpc>>
  /\ UNCHANGED <<devVars, hostVars>>

\* let des_msg = Message::deserialize(&raw)
CodecDeserialize ==
  /\ cpc = "serialized"
  /\ des_msg' = deserialize(dir, raw)
  /\ cpc' = "decoded"
  /\ UNCHANGED <<dir, new_msg, msg_bytes, raw, damage>>
  /\ UNCHANGED <<devVars, hostVars>>

\* checksum values put in place of the right one
BadChecksums == {0, 1, 127, 128, 65535}

\* the environment puts a buffer on the device's UART; the serial thread reads it
EnvSerialRead == \E buf \in InBufs : SerialRead(buf) /\ UNCHANGED <<hostVars, codecVars>>

\* the serial thread writes a reply to the UART, where nobody reads it
EnvUartTx ==
  \E wok \in BOOLEAN : HandleUartTx(wok) /\ UNCHANGED <<hostVars, codecVars>>

DevNext ==
  \/ EnvSerialRead
  \/ EnvUartTx
  \/ \E ok \in BOOLEAN : Worker(ok)

HostNext ==
  \/ \E wok \in BOOLEAN : HostCancel(wok)
  \/ \E wok \in BOOLEAN : HostStart(wok)
  \/ \E arr \in McuBufs : HostAck(arr)
  \/ HostLoopExit
  \/ HostBudgetExceeded
  \/ \E wok \in BOOLEAN : HostSendChunk(wok)
  \/ \E arr \in McuBufs : HostChunkReply(arr)
  \/ \E wok \in BOOLEAN : HostEnd(wok)

\* the device fed arbitrary buffers, the flasher not running
DeviceInit ==
  /\ DevInitState
  /\ HostInitWith(<<>>)
  /\ CodecOff

DeviceSpec == DeviceInit /\ [][DevNext]_vars

\* the flasher fed arbitrary replies, the device not running
HostInit ==
  /\ DevInitState
  /\ \E fw \in Images : HostInitWith(fw)
  /\ CodecOff

HostSpec == HostInit /\ [][HostNext]_vars

\* main is one sequential control flow: whenever it has a next statement, it
\* runs it (a read returns with what arrived or with a timeout error)
HostFairSpec == HostInit /\ [][HostNext]_vars /\ WF_vars(HostNext)

CodecNext ==
  \/ CodecSerialize
  \/ \E b \in 0..(8 * Len(msg_bytes) - 1) : CodecFlipBit(b)
  \/ \E n \in 0..(Len(msg_bytes) - 1) : CodecTruncate(n)
  \/ \E c \in BadChecksums : CodecSetChecksum(c)
  \/ \E b \in {0, 255} : CodecAppend(b)
  \/ CodecWidenTag
  \/ \E v \in {0, 2, 255} : CodecOtherVersion(v)
  \/ CodecDeserialize

\* one message of either direction, the device and the flasher not running
CodecInit ==
  /\ DevInitState
  /\ HostInitWith(<<>>)
  /\ \E d \in {"Host", "Mcu"} : \E m \in CodecMsgs(d) : CodecNew(d, m)

CodecSpec == CodecInit /\ [][CodecNext]_vars

(***************************************************************************)
(* The device late in a long session: UpdateStart and then the segments    *)
(* 0 .. expected_seg_id - 1 have been accepted, the replies sent.  The     *)
(* logs (written, uart_out, nread, nabort) record what happens from here.  *)
(***************************************************************************)
LateIds == {U16 - 2, U16 - 1}

LateMsgs ==
  {UpdateStart, UpdateEnd, Cancel}
    \cup {UpdateSegment(id, <<233>>) : id \in LateIds \cup {0}}

LateBufs == {serialize("Host", New("Host", m)) : m \in LateMsgs}

LateInitState(id) ==
  /\ updater_rx = <<>>
  /\ serial_tx = <<>>
  /\ uart_out = <<>>
  /\ nread = 0
  /\ state = "WaitingForData"
  /\ expected_seg_id = id
  /\ ota_update = "Some"
  /\ written = <<>>
  /\ ncomplete = 0
  /\ nabort = 0
  /\ rx = [ok |-> TRUE, msg |-> New("Host", UpdateSegment(id - 1, <<233>>))]
  /\ ota_res = "ok"
  /\ worker = "running"

EnvSerialReadLate ==
  \E buf \in LateBufs : SerialRead(buf) /\ UNCHANGED <<hostVars, codecVars>>

LateNext ==
  \/ EnvSerialReadLate
  \/ EnvUartTx
  \/ \E ok \in BOOLEAN : Worker(ok)

LateInit ==
  /\ \E id \in LateIds : LateInitState(id)
  /\ HostInitWith(<<>>)
  /\ CodecOff

LateSpec == LateInit /\ [][LateNext]_vars

(***************************************************************************)
(* Properties of the device worker, checked under DeviceSpec.              *)
(***************************************************************************)
\* the worker takes the next buffer from its channel and runs one iteration
WorkerStep ==
  worker = "running" /\ updater_rx # <<>> /\ updater_rx' = Tail(updater_rx)

\* the encoding of each host message the environment sends
Encoded == [m \in HostMsgs |-> serialize("Host", New("Host", m))]

\* the buffer the worker takes next is the encoding of host message m
Carries(m) == updater_rx # <<>> /\ Head(updater_rx) = Encoded[m]

\* exactly one reply is queued, and it is r
Replies(r) == serial_tx' = Append(serial_tx, New("Mcu", r))

\* every reply queued so far, sent or not, as the bytes put on the wire
AllReplies ==
  uart_out \o [k \in 1..Len(serial_tx) |-> serialize("Mcu", serial_tx[k])]

LastReply == AllReplies[Len(AllReplies)]

\* C1: in WaitingForData a segment whose id differs from expected_seg_id is
\* not written, leaves expected_seg_id, the session and the state as they
\* were, and is answered by exactly UpdateSegmentStatus(Retry(Some(expected_seg_id))).
C1_OutOfOrderSegment ==
  [][\A id \in 0..MaxId, d \in SegData :
       (WorkerStep /\ Carries(UpdateSegment(id, d))
          /\ state = "WaitingForData" /\ id # expected_seg_id)
       => /\ written' = written
          /\ ota_update' = ota_update
          /\ expected_seg_id' = expected_seg_id
          /\ state' = "WaitingForData"
          /\ worker' = "running"
          /\ Replies(UpdateSegmentStatus(StRetry(expected_seg_id)))]_vars

\* segment 0 was written, then a segment with another id was refused
C1_Witness ==
  /\ state = "WaitingForData"
  /\ expected_seg_id = 1
  /\ rx.ok /\ rx.msg.payload.message_type.t = "UpdateSegment"
  /\ rx.msg.payload.message_type.id = 2
  /\ written = SegDataOf(0)
  /\ AllReplies # <<>>
  /\ LastReply = serialize("Mcu", New("Mcu", UpdateSegmentStatus(StRetry(1))))

C3_UpdateStart ==
  [][(WorkerStep /\ Carries(UpdateStart) /\ state = "Init" /\ ota_res' = "ok")
       => /\ ota_update = "None" /\ ota_update' = "Some"
          /\ written' = <<>>
          /\ expected_seg_id' = 0
          /\ state' = "WaitingForData"
          /\ worker' = "running"
          /\ Replies(UpdateStartStatus(StOk))]_vars

\* a second session was started after one with an accepted segment was cancelled
C3_Witness ==
  /\ state = "WaitingForData"
  /\ expected_seg_id = 0
  /\ nabort = 1
  /\ written = <<>>
  /\ rx.ok /\ rx.msg.payload.message_type = UpdateStart
  /\ Len(AllReplies) = 3
  /\ AllReplies[2] = serialize("Mcu", New("Mcu", UpdateSegmentStatus(StOk)))
  /\ LastReply = serialize("Mcu", New("Mcu", UpdateStartStatus(StOk)))

Illegal(m, s) ==
  \/ m.t = "UpdateStart" /\ s = "WaitingForData"
  \/ m.t \in {"UpdateSegment", "UpdateEnd"} /\ s = "Init"

\* C5: a decoded message that is not legal in the current state queues no
\* reply and changes neither the state, expected_seg_id, the session nor
\* the data written to it.
C5_IllegalMessage ==
  [][\A m \in HostMsgs :
       (WorkerStep /\ Carries(m) /\ Illegal(m, state))
       => UNCHANGED <<state, expected_seg_id, ota_update, written, ncomplete,
                      nabort, serial_tx, uart_out, worker>>]_vars

\* an UpdateStart was dropped in the middle of a session
C5_Witness ==
  /\ state = "WaitingForData"
  /\ expected_seg_id = 1
  /\ rx.ok /\ rx.msg.payload.message_type = UpdateStart
  /\ Len(AllReplies) = 2
  /\ Len(written) = 2

(***************************************************************************)
(* Properties of the flasher, checked under HostSpec.                      *)
(***************************************************************************)
\* send_chunk returned Ok(status)
Returned(status) == [ok |-> TRUE, msg |-> status]

\* the flasher takes the result of send_chunk
ChunkReplyStep == hpc = "reply" /\ hpc' # "reply"

\* the flasher writes a buffer to the serial port
Wrote ==
  \/ port_out' # port_out
  \/ hpc = "loop" /\ hpc' = "reply"

\* the kind of host message a written buffer decodes to
SentKind(buf) ==
  IF buf = <<>> THEN "none"
  ELSE IF deserialize("Host", buf).ok
    THEN deserialize("Host", buf).msg.payload.message_type.t
    ELSE "garbage"

\* the written buffer is UpdateSegment(n, chunk n of the firmware)
IsSegment(buf, n) ==
  /\ n < NChunks
  /\ buf = serialize("Host", New("Host", UpdateSegment(n, Chunk(n))))

\* C6: a reply Retry(Some(k)) with k <= i to UpdateSegment(i, chunk i) sets
\* the cursor to k, the id of the reply; every segment written is
\* UpdateSegment(i, chunk i) for the cursor i of that moment, the cursor moves
\* only when a reply is taken, and an Ok reply moves it from k to k + 1.
C6_Rewind ==
  [][/\ \A k \in 0..MaxId :
          (ChunkReplyStep /\ rx_msg' = Returned(StRetry(k)) /\ k <= i)
          => i' = k /\ hpc' = "loop"
     /\ (ChunkReplyStep /\ rx_msg' = Returned(StOk)) => i' = i + 1 /\ hpc' = "loop"
     /\ (hpc = "loop" /\ hpc' = "reply") => IsSegment(port_out', i) /\ i' = i
     /\ (hpc \in {"loop", "end"}) => i' = i]_vars

\* chunks 0 and 1 were acknowledged, chunk 2 was answered by Retry(Some(0)),
\* chunk 0 was written again and acknowledged: the cursor is at 1
C6_Witness ==
  /\ hpc = "loop"
  /\ i = 1
  /\ retry_cnt = 0
  /\ acked = {0, 1}
  /\ rx_msg = Returned(StOk)
  /\ IsSegment(port_out, 0)

\* C7: a decode failure or a transport failure while a chunk is sent or its
\* reply read is counted against the retry budget: main returns that error
\* only from the last of the MAX_RETRY attempts at the chunk.
C7_IoFailureRetried ==
  [][(hpc \in {"loop", "reply"} /\ hpc' = "failed" /\ herr' \in {"Io", "Deserialize"})
       => retry_cnt + 1 >= MAX_RETRY]_vars

\* the messages that may follow one another on the wire
Follows(prev, next) ==
  \/ prev = "none" /\ next = "Cancel"
  \/ prev = "Cancel" /\ next = "UpdateStart"
  \/ prev = "UpdateStart" /\ next \in {"UpdateSegment", "UpdateEnd"}
  \/ prev = "UpdateSegment" /\ next \in {"UpdateSegment", "UpdateEnd"}

\* C8: what the flasher writes is, in order, Cancel, UpdateStart, segments,
\* UpdateEnd; nothing follows UpdateEnd; a segment is written only after
\* UpdateStartStatus(Ok) was read; UpdateEnd is written only when every
\* chunk index of the image has been acknowledged Ok.
C8_SendOrder ==
  [][Wrote =>
       /\ Follows(SentKind(port_out), SentKind(port_out'))
       /\ SentKind(port_out') = "UpdateSegment" => start_acked
       /\ SentKind(port_out') = "UpdateEnd" =>
            start_acked /\ acked = 0..(NChunks - 1)]_vars

\* a three-chunk image was transferred to the end
C8_Witness ==
  /\ hpc = "done"
  /\ NChunks = 3
  /\ acked = {0, 1, 2}
  /\ SentKind(port_out) = "UpdateEnd"

\* C9: unless the reply to UpdateStart decodes to UpdateStartStatus(Ok),
\* main returns an error and writes nothing more: no second UpdateStart, no
\* segment, no UpdateEnd.
C9_StartRefused ==
  /\ [][(hpc = "ack" /\ hpc' # "ack"
           /\ rx_msg' # [ok |-> TRUE, msg |-> New("Mcu", UpdateStartStatus(StOk))])
          => hpc' = "failed" /\ ~start_acked']_vars
  /\ [][~start_acked'
          => port_out' = port_out \/ SentKind(port_out) \in {"none", "Cancel"}]_vars
  /\ [][hpc = "failed" => hpc' = "failed"]_vars

\* the device answered UpdateStart with UpdateStartStatus(Failed)
C9_Witness ==
  /\ hpc = "failed"
  /\ herr = "ComInvalidResponse"
  /\ rx_msg = [ok |-> TRUE, msg |-> New("Mcu", UpdateStartStatus(StFailed))]
  /\ SentKind(port_out) = "UpdateStart"
  /\ NChunks > 0

\* the statuses that end the transfer when they answer the segment at cursor n
Fatal(status, n) ==
  \/ status = StFailed
  \/ status = StRetryNone
  \/ status.s = "Retry" /\ status.id > n

\* C10: a segment reply of Retry(Some(k)) with k > i, Retry(None) or Failed
\* makes main return an error with the cursor where it was; nothing is
\* written afterwards, so no further segment and no UpdateEnd.
C10_FatalStatus ==
  /\ [][(ChunkReplyStep /\ rx_msg'.ok /\ Fatal(rx_msg'.msg, i))
          => /\ hpc' = "failed"
             /\ herr' = "ComCriticalError"
             /\ i' = i
             /\ port_out' = port_out]_vars
  /\ [][hpc = "failed" => UNCHANGED <<hpc, herr, i, port_out>>]_vars

\* chunk 1 was answered by Retry(Some(2))
C10_Witness ==
  /\ hpc = "failed"
  /\ herr = "ComCriticalError"
  /\ rx_msg = Returned(StRetry(2))
  /\ i = 1
  /\ acked = {0}
  /\ IsSegment(port_out, 1)

Undamaged == damage = NoDamage

\* C12: for every message of either direction, deserialize applied to the
\* serialized Message::new(message_type) succeeds and returns a message
\* equal to the original: same version, variant, fields and checksum.
C12_RoundTrip ==
  (cpc = "decoded" /\ Undamaged)
    => /\ des_msg.ok
       /\ des_msg.msg = new_msg
       /\ des_msg.msg.payload.message_type.t = new_msg.payload.message_type.t

\* UpdateSegment(666, [1, 2, 3, 255]) came back from its twelve bytes
C12_Witness ==
  /\ cpc = "decoded" /\ Undamaged
  /\ dir = "Host"
  /\ Len(msg_bytes) = 12
  /\ des_msg.ok
  /\ des_msg.msg.payload.message_type = UpdateSegment(666, <<1, 2, 3, 255>>)

\* C13: every message deserialize returns carries the CRC-16 of its own
\* serialized payload (version and message type); a well-formed buffer whose
\* checksum field holds another value is refused with ChecksumError, and a
\* buffer cut short is refused with the format error, not with ChecksumError.
C13_AcceptedChecksum ==
  cpc = "decoded"
    => /\ des_msg.ok
            => des_msg.msg.checksum = Checksum(SerPayload(dir, des_msg.msg.payload))
       /\ damage.k = "checksum" => des_msg = [ok |-> FALSE, err |-> "ChecksumError"]
       /\ damage.k = "truncate" => des_msg = [ok |-> FALSE, err |-> "Format"]

\* Adc(0x1337) with a checksum field of 0 was refused with ChecksumError
C13_Witness ==
  /\ cpc = "decoded"
  /\ dir = "Mcu"
  /\ raw = <<VERSION, 0, 183, 38, 0>>
  /\ damage = [k |-> "checksum", c |-> 0]
  /\ des_msg = [ok |-> FALSE, err |-> "ChecksumError"]

\* C14 as stated: whichever single bit of a valid encoded message is
\* inverted, deserialize fails with ChecksumError.
C14_AnyFlipChecksumError ==
  (cpc = "decoded" /\ damage.k = "flip")
    => des_msg = [ok |-> FALSE, err |-> "ChecksumError"]

\* C14, amended: whichever single bit of a valid encoded message is
\* inverted, deserialize fails; the error is ChecksumError when the damaged
\* bytes still parse as a message (always so for a bit of the version byte)
\* and the format error when they do not.
C14_FlipDetected ==
  (cpc = "decoded" /\ damage.k = "flip")
    => /\ ~des_msg.ok
       /\ des_msg.err = IF from_bytes(dir, raw).ok THEN "ChecksumError" ELSE "Format"
       /\ damage.bit < 8 => des_msg.err = "ChecksumError"

\* a bit of the first data byte of UpdateSegment(666, [1, 2, 3, 255]) was inverted
C14_Witness ==
  /\ cpc = "decoded"
  /\ dir = "Host"
  /\ damage = [k |-> "flip", bit |-> 40]
  /\ raw = <<VERSION, 1, 154, 5, 4, 0, 2, 3, 255, 190, 132, 1>>
  /\ des_msg = [ok |-> FALSE, err |-> "ChecksumError"]

\* n < 2^28 in little-endian base 128: seven bits a byte, lowest first, the
\* high bit set on every byte but the last
Leb128(n) ==
  IF n < 128 THEN <<n>>
  ELSE IF n < 16384 THEN <<128 + (n % 128), n \div 128>>
  ELSE IF n < 2097152 THEN <<128 + (n % 128), 128 + ((n \div 128) % 128), n \div 16384>>
  ELSE <<128 + (n % 128), 128 + ((n \div 128) % 128),
         128 + ((n \div 16384) % 128), n \div 2097152>>

\* the number of each variant in its enum, in declaration order
TagOf(mt) ==
  CASE mt.t \in {"UpdateStart", "Adc"} -> 0
    [] mt.t \in {"UpdateSegment", "UpdateStartStatus"} -> 1
    [] mt.t \in {"UpdateEnd", "UpdateSegmentStatus"} -> 2
    [] mt.t \in {"Cancel", "UpdateEndStatus"} -> 3

StatusOnWire(st) ==
  CASE st.s = "Ok" -> <<0>>
    [] st.s = "RetryNone" -> <<1, 0>>
    [] st.s = "Retry" -> <<1, 1>> \o Leb128(st.id)
    [] st.s = "Failed" -> <<2>>

\* the fields of a variant, in declaration order
FieldsOnWire(mt) ==
  CASE mt.t = "UpdateSegment" -> Leb128(mt.id) \o Leb128(Len(mt.data)) \o mt.data
    [] mt.t = "Adc" -> Leb128(mt.v)
    [] mt.t \in {"UpdateStartStatus", "UpdateSegmentStatus", "UpdateEndStatus"} ->
         StatusOnWire(mt.st)
    [] OTHER -> <<>>

\* C15: the encoding of a message is the version byte, the variant tag, the
\* fields in order and the checksum, every integer in little-endian base
\* 128; UpdateStart is 01 00 BE 5C, Cancel is 01 03 DD 3C and
\* UpdateSegment(666, [01 02 03 FF]) is 01 01 9A 05 04 01 02 03 FF BE 84 01.
C15_WireFormat ==
  cpc \in {"serialized", "decoded"}
    => /\ msg_bytes = <<VERSION>> \o Leb128(TagOf(new_msg.payload.message_type))
                        \o FieldsOnWire(new_msg.payload.message_type)
                        \o Leb128(new_msg.checksum)
       /\ new_msg.payload.message_type = UpdateStart
            => msg_bytes = <<1, 0, 190, 92>>
       /\ new_msg.payload.message_type = Cancel
            => msg_bytes = <<1, 3, 221, 60>>
       /\ new_msg.payload.message_type = UpdateSegment(666, <<1, 2, 3, 255>>)
            => msg_bytes = <<1, 1, 154, 5, 4, 1, 2, 3, 255, 190, 132, 1>>

\* UpdateSegment(666, [1, 2, 3, 255]) was serialized to its twelve bytes
C15_Witness ==
  /\ cpc = "serialized"
  /\ Undamaged
  /\ new_msg.payload.message_type = UpdateSegment(666, <<1, 2, 3, 255>>)
  /\ msg_bytes = <<1, 1, 154, 5, 4, 1, 2, 3, 255, 190, 132, 1>>

(***************************************************************************)
(* Properties of the worker's sequencing and session handling.             *)
(***************************************************************************)
\* the message the worker decoded in this step, if it decoded one
Handled(kind) == rx'.ok /\ rx'.msg.payload.message_type.t = kind

\* C16: expected_seg_id never decreases in a step, unless the step is the
\* worker processing a Cancel or an UpdateStart.
C16_NeverRegresses ==
  [][expected_seg_id' < expected_seg_id
       => WorkerStep /\ (Handled("Cancel") \/ Handled("UpdateStart"))]_vars

\* C17: while the worker runs, a storage handle is open exactly when the
\* state machine is in WaitingForData; a handle is opened only by an
\* UpdateStart processed in Init, and never while one is open; it is
\* released only by an UpdateEnd or a Cancel.
C17_OneHandle ==
  /\ [](worker = "running" => (ota_update = "Some" <=> state = "WaitingForData"))
  /\ [][(ota_update = "None" /\ ota_update' = "Some")
          => WorkerStep /\ Handled("UpdateStart") /\ state = "Init"]_vars
  /\ [][(WorkerStep /\ Handled("UpdateStart") /\ ota_res' = "ok")
          => ota_update = "None" /\ ota_update' = "Some"]_vars
  /\ [][(ota_update = "Some" /\ ota_update' = "None")
          => WorkerStep /\ (Handled("UpdateEnd") \/ Handled("Cancel"))]_vars

\* a second session is open, with one segment written, after the first was cancelled
C17_Witness ==
  /\ worker = "running"
  /\ state = "WaitingForData"
  /\ ota_update = "Some"
  /\ nabort = 1
  /\ written = SegDataOf(0)
  /\ expected_seg_id = 1

\* C18: when the write of an in-sequence segment fails in WaitingForData,
\* the session is aborted (handle released, state Init, nothing committed)
\* and UpdateSegmentStatus(Failed) is queued for the host.
C18_WriteFailureAborts ==
  [][(WorkerStep /\ Handled("UpdateSegment") /\ state = "WaitingForData"
        /\ ota_res' = "err")
       => /\ state' = "Init"
          /\ ota_update' = "None"
          /\ ncomplete' = ncomplete
          /\ Replies(UpdateSegmentStatus(StFailed))]_vars

\* C19: a buffer that deserialize refuses, for its format or its checksum,
\* is dropped: no reply is queued, and the state, expected_seg_id, the
\* session and what was written to it stay as they were; the worker keeps
\* running with the next buffer at the head of its channel.
C19_DecodeFailureDropped ==
  [][(WorkerStep /\ ~rx'.ok)
       => /\ rx'.err \in {"Format", "ChecksumError"}
          /\ UNCHANGED <<state, expected_seg_id, ota_update, written, ncomplete,
                         nabort, serial_tx, uart_out>>
          /\ worker' = "running"
          /\ updater_rx' = Tail(updater_rx)]_vars

\* in a session with one segment written, a buffer with a wrong checksum
\* was dropped and another buffer waits
C19_Witness ==
  /\ rx = [ok |-> FALSE, err |-> "ChecksumError"]
  /\ worker = "running"
  /\ state = "WaitingForData"
  /\ expected_seg_id = 1
  /\ written = SegDataOf(0)
  /\ Len(AllReplies) = 2
  /\ updater_rx = <<Truncated>>

\* C20: whatever buffers arrive, the state machine is in Init or
\* WaitingForData and the worker does not panic unless a storage operation
\* failed; it stops only by the reset that follows a successful commit.
C20_NeverPanics ==
  /\ state \in {"Init", "WaitingForData"}
  /\ worker = "panicked" => ota_res = "err"
  /\ worker = "restarted" => ncomplete = 1 /\ ota_res = "ok"

(***************************************************************************)
(* The version field, checked under CodecSpec.                             *)
(***************************************************************************)
\* C21: a message whose version field is not VERSION is never accepted by
\* deserialize, even when its checksum is the CRC of its own payload.
C21_OtherVersionRefused ==
  (cpc = "decoded" /\ damage.k = "version") => ~des_msg.ok

(***************************************************************************)
(* The two queues of the device, checked under DeviceSpec.                 *)
(***************************************************************************)
IsPrefix(a, b) == Len(a) <= Len(b) /\ SubSeq(b, 1, Len(a)) = a

\* the worker takes the buffer read first and decodes it; the serial thread
\* puts each buffer it reads behind those already waiting
InboundFifo ==
  [][updater_rx' # updater_rx
       => \/ WorkerStep /\ rx' = deserialize("Host", Head(updater_rx))
          \/ \E buf \in InBufs : updater_rx' = Append(updater_rx, buf)]_vars

\* C22 as stated: every reply the worker queued stays, in its place, in the
\* replies written to the UART followed by those still waiting, so that the
\* written replies are always a prefix of the queued ones with none lost or
\* repeated; inbound buffers reach the worker in the order they were read.
C22_QueuesFifoNoLoss ==
  /\ [][IsPrefix(AllReplies, AllReplies')]_vars
  /\ InboundFifo

\* C22, amended: replies are queued at the tail by the worker, one a step;
\* the serial thread takes them from the head, one a step, and writes to the
\* UART exactly the reply it took, or nothing when the write fails; so the
\* written replies are, in order and without repetition, the queued ones
\* less those whose write failed.  Inbound buffers reach the worker in the
\* order they were read.
C22_QueuesFifo ==
  /\ [][serial_tx' # serial_tx
          => \/ /\ WorkerStep
                /\ \E r \in McuMsgs \cup {UpdateSegmentStatus(StRetry(expected_seg_id))} :
                     Replies(r)
                /\ uart_out' = uart_out
             \/ /\ serial_tx # <<>> /\ serial_tx' = Tail(serial_tx)
                /\ \/ uart_out' = Append(uart_out, serialize("Mcu", Head(serial_tx)))
                   \/ uart_out' = uart_out]_vars
  /\ [][uart_out' # uart_out => serial_tx # <<>> /\ serial_tx' = Tail(serial_tx)]_vars
  /\ InboundFifo

\* the reply to UpdateStart was taken from the queue and its write failed;
\* the reply to segment 0, queued behind it, was written
C22_Witness ==
  /\ state = "WaitingForData"
  /\ expected_seg_id = 1
  /\ nabort = 0
  /\ serial_tx = <<>>
  /\ uart_out = <<serialize("Mcu", New("Mcu", UpdateSegmentStatus(StOk)))>>

(***************************************************************************)
(* Termination of the flasher, checked under HostFairSpec.                 *)
(***************************************************************************)
\* C23: whatever the replies, main eventually returns, with Ok(()) after
\* UpdateEnd or with an error; it does not send segments forever.
C23_HostTerminates == <>(hpc \in {"done", "failed"})

(***************************************************************************)
(* The retry budget of the flasher, checked under HostSpec.                *)
(***************************************************************************)
\* the reply taken in this step is Retry(Some(k)) with k at most the cursor
RewindReply ==
  /\ ChunkReplyStep
  /\ rx_msg'.ok /\ rx_msg'.msg.s = "Retry" /\ rx_msg'.msg.id <= i

\* C25: retry_cnt counts the Retry(Some(k)), k <= i, replies taken since the
\* last Ok: each adds one, a segment is written only while retry_cnt is
\* below MAX_RETRY (so at most 5 segments without an Ok in between), with
\* retry_cnt = MAX_RETRY main returns ComWriteFailed without writing, and
\* retry_cnt goes back to 0 only by an Ok reply that advances the cursor.
C25_RetryBudget ==
  /\ [](retry_cnt \in 0..MAX_RETRY)
  /\ [][RewindReply => retry_cnt' = retry_cnt + 1 /\ hpc' = "loop"]_vars
  /\ [][(hpc = "loop" /\ hpc' = "reply")
          => retry_cnt < MAX_RETRY /\ retry_cnt' = retry_cnt]_vars
  /\ [][(hpc = "loop" /\ retry_cnt = MAX_RETRY)
          => hpc' = "failed" /\ herr' = "ComWriteFailed" /\ port_out' = port_out]_vars
  /\ [][retry_cnt' # retry_cnt
          => \/ RewindReply
             \/ /\ ChunkReplyStep /\ rx_msg' = Returned(StOk)
                /\ retry_cnt' = 0 /\ i' = i + 1]_vars

\* chunk 1 was sent, rewound to chunk 0, and chunk 0 answered by Retry(Some(0))
\* until the fifth Retry in a row ended the transfer
C25_Witness ==
  /\ hpc = "failed"
  /\ herr = "ComWriteFailed"
  /\ retry_cnt = MAX_RETRY
  /\ acked = {0}
  /\ i = 0
  /\ rx_msg = Returned(StRetry(0))
  /\ IsSegment(port_out, 0)

(***************************************************************************)
(* The flasher and the device on one serial line.  The line delivers every *)
(* buffer once, whole and in order; writes and storage operations succeed. *)
(***************************************************************************)
\* the buffer the flasher wrote is read by the device's serial thread in one
\* read and forwarded to the worker (nothing is read after esp_restart)
LineToDevice(buf) ==
  IF worker = "running"
    THEN /\ nread < MaxRx + MaxChunks
         /\ nread' = nread + 1
         /\ updater_rx' = Append(updater_rx, buf)
         /\ UNCHANGED <<serial_tx, uart_out, state, expected_seg_id, ota_update,
                        written, ncomplete, nabort, rx, ota_res, worker>>
    ELSE UNCHANGED devVars

\* Cancel any previous operation
WiredCancel ==
  /\ hpc = "cancel"
  /\ HostWrite(Cancel, TRUE, "start")
  /\ LineToDevice(port_out')
  /\ UNCHANGED <<firmware, i, retry_cnt, port_rx, rx_msg, start_acked, acked>>
  /\ UNCHANGED codecVars

\* Start update
WiredStart ==
  /\ hpc = "start"
  /\ HostWrite(UpdateStart, TRUE, "ack")
  /\ LineToDevice(port_out')
  /\ UNCHANGED <<firmware, i, retry_cnt, port_rx, rx_msg, start_acked, acked>>
  /\ UNCHANGED codecVars

\* one pass of the retry loop up to the write: the budget check, then
\* send_chunk's write of UpdateSegment(i as u16, chunk)
WiredSendChunk ==
  /\ hpc = "loop"
  /\ IF retry_cnt = 0 THEN i < NChunks ELSE TRUE
  /\ IF retry_cnt = MAX_RETRY
       THEN /\ HostFail("ComWriteFailed")
            /\ UNCHANGED <<port_out, devVars>>
       ELSE /\ HostWrite(UpdateSegment(i % U16, Chunk(i)), TRUE, "reply")
            /\ LineToDevice(port_out')
  /\ UNCHANGED <<firmware, i, retry_cnt, port_rx, rx_msg, start_acked, acked>>
  /\ UNCHANGED codecVars

\* after the loop: write UpdateEnd, return Ok(())
WiredEnd ==
  /\ hpc = "end"
  /\ HostWrite(UpdateEnd, TRUE, "done")
  /\ LineToDevice(port_out')
  /\ UNCHANGED <<firmware, i, retry_cnt, port_rx, rx_msg, start_acked, acked>>
  /\ UNCHANGED codecVars

\* handle_uart_tx writes the oldest queued reply to the UART; the line puts
\* its bytes into the input buffer of the flasher's port
WiredUartTx ==
  /\ HandleUartTx(TRUE)
  /\ port_rx' = port_rx \o serialize("Mcu", Head(serial_tx))
  /\ UNCHANGED <<firmware, hpc, i, retry_cnt, herr, port_out, rx_msg,
                 start_acked, acked>>
  /\ UNCHANGED codecVars

\* the flasher's reads get what the device has sent by then, and time out
\* when that is nothing
ComposedNext ==
  \/ WiredCancel
  \/ WiredStart
  \/ HostAck(<<>>)
  \/ HostLoopExit
  \/ WiredSendChunk
  \/ HostChunkReply(<<>>)
  \/ WiredEnd
  \/ WiredUartTx
  \/ Worker(TRUE)

\* the device after power-on, the flasher started on one of the images
ComposedInit ==
  /\ DevInitState
  /\ \E fw \in Images : HostInitWith(fw)
  /\ CodecOff

ComposedSpec == ComposedInit /\ [][ComposedNext]_vars

\* chunks 0 .. n-1 of the image, one after the other
ChunksUpTo(n) == SubSeq(firmware, 1, Min(n * CHUNK_SIZE, Len(firmware)))

\* the worker commits the update: complete() on UpdateEnd
Commits == ncomplete' = ncomplete + 1

\* C24: with the flasher and the device on a line that delivers every message
\* once and in order and with storage operations succeeding, the bytes written
\* to the open storage session are always chunks 0 .. expected_seg_id - 1 of
\* the image, each once and in order (no more chunks than the image has), and
\* at the commit they are the whole image.
C24_WrittenIsImagePrefix ==
  /\ [](ota_update = "Some"
          => /\ expected_seg_id <= NChunks
             /\ written = ChunksUpTo(expected_seg_id))
  /\ [][Commits => written = firmware /\ expected_seg_id = NChunks]_vars

\* an image of three chunks was written and committed, the flasher returned Ok
C24_Witness ==
  /\ NChunks = MaxChunks
  /\ ncomplete = 1
  /\ written = firmware
  /\ worker = "restarted"
  /\ hpc = "done"

====
